---- MODULE Spec2Model ----
(***************************************************************************)
(* Model of the tool lifecycle registry of src/tool_fabric.py:             *)
(*   MCPClient    (lines 72-112)  a client handle and its health threads    *)
(*   BaseTool, InternalFunctionTool, MCPBasedTool (lines 126-233)           *)
(*   create_tool  (lines 245-251)                                           *)
(*   ToolFabric   (lines 263-296) the registry                              *)
(* The methods of ToolFabric and MCPClient.disconnect are cut into one step  *)
(* per statement that reads or writes state another thread can reach.       *)
(* start() is one step: it works on an object that no table and no other    *)
(* thread refers to yet. One turn of health_loop (test, reconnect, sleep) is *)
(* one step.                                                                *)
(*                                                                          *)
(* The programs modelled:                                                   *)
(*   Spec        add_tool / remove_tool called by two threads at once       *)
(*   HotSpec     one thread adds and removes, another calls the invocables   *)
(*   SeqSpec     the registry's methods called by one thread                 *)
(*   ClientSpec  one MCPClient used directly by one thread (ClientFairSpec:  *)
(*               with its health threads scheduled)                          *)
(*   ToolSpec    tool objects constructed and used directly by one thread    *)
(***************************************************************************)
EXTENDS Naturals, Sequences, FiniteSets

\* ---------------------------------------------------------------- bounds
\* Tool instances ever constructed by create_tool.
MaxInst == 2

\* Health threads ever started on one client handle.
MaxThreads == 3

\* Tool names used by the descriptors.
Names == {"a", "b"}

Insts == 1..MaxInst

\* The threads of the host program that call into the registry.
Callers == {1, 2}

\* The caller of the single-threaded specifications.
Main == 1

\* The consumer's thread, where it runs beside the registry's caller.
Agent == 2

VARIABLES
    tool_instances, \* ToolFabric.tool_instances: name -> instance (0: no key)
    tools,          \* ToolFabric.tools: name -> invocable of an instance (0: no key)
    inst,           \* the tool instances constructed so far
    client,         \* the client handle of each instance (MCPClient fields)
    agent_tools,    \* the consumer's own tool table (agent.tools)
    view,           \* whether setup() has returned its view to a consumer
    call            \* what each caller is executing: operation, position, locals

vars == <<tool_instances, tools, inst, client, agent_tools, view, call>>

\* ---------------------------------------------------------- client handle
\* MCPClient.__init__: a handle that has not been constructed yet / one that has.
NoClient ==
    [exists |-> FALSE, connected |-> FALSE, stop_health |-> FALSE,
     health_thread |-> 0, threads |-> <<>>]

NewClient == [NoClient EXCEPT !.exists = TRUE]

\* MCPClient.connect: the try body prints and sets connected; nothing in it fails.
connect(cl, h) == [cl EXCEPT ![h].connected = TRUE]

\* A disconnect that clears connected on every handle of the program.
disconnect_clear_every(cl, h) ==
    [k \in DOMAIN cl |-> [cl[k] EXCEPT !.connected = FALSE]]

\* MCPClient.disconnect, first statement.
disconnect_clear(cl, h) == [cl EXCEPT ![h].connected = FALSE]

\* MCPClient.disconnect, second statement: the cancellation flag.
disconnect_signal(cl, h) == [cl EXCEPT ![h].stop_health = TRUE]

\* MCPClient.disconnect, the join: it waits for the thread _health_thread names,
\* which is the thread started last, and for no other.
disconnect_joined(cl, h) ==
    IF cl[h].health_thread = 0
    THEN TRUE
    ELSE cl[h].threads[cl[h].health_thread] = "exited"

\* A start_health_check that clears the cancellation flag before it starts
\* the thread.
start_health_check_rearmed(cl, h) ==
    [cl EXCEPT ![h].threads = Append(@, "running"),
               ![h].health_thread = Len(cl[h].threads) + 1,
               ![h].stop_health = FALSE]

\* MCPClient.start_health_check: a new running thread; _health_thread is
\* overwritten with it.
start_health_check(cl, h) ==
    [cl EXCEPT ![h].threads = Append(@, "running"),
               ![h].health_thread = Len(cl[h].threads) + 1]

\* health_loop with the test of its body inverted: a handle that is not
\* connected is left alone.
health_loop_no_reconnect(cl, h, t) ==
    IF cl[h].stop_health
    THEN [cl EXCEPT ![h].threads[t] = "exited"]
    ELSE cl

\* One turn of health_loop in thread t of handle h: the while test ends the
\* thread when the flag is set; otherwise the body reconnects a handle that is
\* not connected, and sleeps.
health_loop(cl, h, t) ==
    IF cl[h].stop_health
    THEN [cl EXCEPT ![h].threads[t] = "exited"]
    ELSE IF cl[h].connected THEN cl ELSE connect(cl, h)

\* MCPClient.send that raises on a handle that is not connected.
send_raises(cl, h) == IF cl[h].connected THEN "sent" ELSE "ConnectionError"

\* MCPClient.send: what it does with the payload. A handle that is not
\* connected prints a warning and returns; nothing is stored or counted.
send(cl, h) == IF cl[h].connected THEN "sent" ELSE "warning"

\* The health threads of handle h that have not exited.
LiveTasks(cl, h) ==
    Cardinality({t \in 1..Len(cl[h].threads) : cl[h].threads[t] # "exited"})

\* ---------------------------------------------------------- tool instance
\* BaseTool.__init__ has not run for this slot / the object create_tool returns.
NoInst ==
    [class |-> "", phase |-> "none", process |-> "none", stops |-> 0,
     stopped |-> FALSE]

\* The tool descriptors add_tool is called with. kind: which keys the descriptor
\* has (command / module and function / neither). backing: whether the command
\* (a non-empty list) launches, or the module.function resolves. client: no
\* enabled entry in mcp_clients, one well-formed enabled entry, or one enabled
\* entry without a required key.
Cfgs ==
    {cfg \in [name : Names, kind : {"command", "function", "unknown"},
              backing : {"ok", "bad"}, client : {"none", "ok", "bad"}] :
        cfg.kind = "unknown" => cfg.backing = "ok" /\ cfg.client = "none"}

\* What create_tool reads of a descriptor: its name and which keys it has.
\* The rest is read by start().
head(cfg) == [cfg EXCEPT !.backing = "", !.client = ""]

\* create_tool: the class constructed, or the ValueError raised.
create_tool(cfg) ==
    IF cfg.kind = "command" THEN "MCPBasedTool"
    ELSE IF cfg.kind = "function" THEN "InternalFunctionTool"
    ELSE "ValueError"

\* The object create_tool(cfg) returns: BaseTool.__init__ has run, start() has
\* not.
new_tool(cfg) == [NoInst EXCEPT !.class = create_tool(cfg), !.phase = "created"]

\* BaseTool._attach_mcp_clients: the handle of the instance after the loop, or
\* the KeyError of an entry without its name / host / port.
attach_mcp_clients(cfg) ==
    IF cfg.client = "bad" THEN [err |-> "KeyError", client |-> NoClient]
    ELSE IF cfg.client = "ok"
         THEN [err |-> "", client |-> [NewClient EXCEPT !.connected = TRUE]]
    ELSE [err |-> "", client |-> NoClient]

\* BaseTool._start_health_checks: one start_health_check per attached handle.
start_health_checks(hc) ==
    IF hc.exists
    THEN [hc EXCEPT !.threads = Append(@, "running"),
                    !.health_thread = Len(hc.threads) + 1]
    ELSE hc

\* MCPBasedTool.start / InternalFunctionTool.start on the object ti built from
\* cfg: the error raised ("" when start returns), the instance and its handle.
\* The backing step (Popen, or import and getattr) comes first; a failure in
\* _attach_mcp_clients leaves the process launched before it running.
start(ti, cfg) ==
    IF cfg.backing = "bad"
    THEN [err |-> IF create_tool(cfg) = "MCPBasedTool"
                  THEN "ProcessLaunchFailure" ELSE "ConfigurationError",
          inst |-> [ti EXCEPT !.phase = "failed"], client |-> NoClient]
    ELSE LET launched ==
                 [ti EXCEPT !.process =
                     IF create_tool(cfg) = "MCPBasedTool" /\ cfg.backing = "ok"
                     THEN "running" ELSE "none"]
             att == attach_mcp_clients(cfg)
         IN  IF att.err # ""
             THEN [err |-> att.err,
                   inst |-> [launched EXCEPT !.phase = "failed"],
                   client |-> NoClient]
             ELSE [err |-> "",
                   inst |-> [launched EXCEPT !.phase = "ready"],
                   client |-> start_health_checks(att.client)]

\* The object of a failed start() is dropped by add_tool's caller: nothing
\* refers to it. One that owns no process is collected and its slot is free
\* again; a launched process stays on record.
discard(r) ==
    IF r.err # "" /\ r.inst.process = "none" THEN NoInst ELSE r.inst

\* The instance slot the next BaseTool.__init__ fills.
FreeInst == {i \in Insts : inst[i].phase = "none" /\ ~client[i].exists}

NextInst == CHOOSE i \in FreeInst : \A j \in FreeInst : i <= j

\* The keys of a registry table.
Keys(table) == {n \in Names : table[n] # 0}

\* ------------------------------------------------------------------ calls
NoCfg == [name |-> "", kind |-> "", backing |-> "", client |-> ""]

Idle ==
    [op |-> "idle", pc |-> "", name |-> "", cfg |-> NoCfg, inst |-> 0,
     res |-> "", present |-> FALSE, before |-> <<>>, visited |-> {},
     size |-> 0, todo |-> <<>>, fn |-> "", arg |-> "", value |-> <<>>,
     sent |-> ""]

\* A scheduler step of some health thread.
HealthStep ==
    /\ \E h \in Insts :
          \E t \in 1..Len(client[h].threads) :
             /\ client[h].threads[t] # "exited"
             /\ client' = health_loop(client, h, t)
    /\ UNCHANGED <<tool_instances, tools, inst, agent_tools, view, call>>

\* Return of a finished call to its caller.
Return(c) ==
    /\ call[c].pc = "done"
    /\ call' = [call EXCEPT ![c] = Idle]
    /\ UNCHANGED <<tool_instances, tools, inst, client, agent_tools, view>>

\* ------------------------------------------- direct use of a client handle
\* The handle a program holds directly (MCPClient(...) constructed by hand).
Handle == 1

ClientConnect(c) ==
    /\ call[c].op = "idle"
    /\ client' = connect(client, Handle)
    /\ UNCHANGED <<tool_instances, tools, inst, agent_tools, view, call>>

ClientStartHealthCheck(c) ==
    /\ call[c].op = "idle"
    /\ Len(client[Handle].threads) < MaxThreads
    /\ client' = start_health_check(client, Handle)
    /\ UNCHANGED <<tool_instances, tools, inst, agent_tools, view, call>>

\* disconnect(), line 98.
ClientDisconnect(c) ==
    /\ call[c].op = "idle"
    /\ client' = disconnect_clear(client, Handle)
    /\ call' = [call EXCEPT ![c] =
                   [Idle EXCEPT !.op = "disconnect", !.pc = "signal",
                                !.inst = Handle]]
    /\ UNCHANGED <<tool_instances, tools, inst, agent_tools, view>>

\* disconnect(), line 99.
ClientDisconnectSignal(c) ==
    /\ call[c].op = "disconnect" /\ call[c].pc = "signal"
    /\ client' = disconnect_signal(client, call[c].inst)
    /\ call' = [call EXCEPT ![c].pc = "join"]
    /\ UNCHANGED <<tool_instances, tools, inst, agent_tools, view>>

\* disconnect(), lines 100-102: the join returns, then disconnect returns.
ClientDisconnectJoin(c) ==
    /\ call[c].op = "disconnect" /\ call[c].pc = "join"
    /\ disconnect_joined(client, call[c].inst)
    /\ call' = [call EXCEPT ![c].pc = "done", ![c].res = "ok"]
    /\ UNCHANGED <<tool_instances, tools, inst, client, agent_tools, view>>

\* ------------------------------------------------------ ToolFabric.add_tool
\* add_tool with the insertions moved before start().
add_tool_next_insert_first(pc) ==
    CASE pc = "create" -> "insert_instances"
      [] pc = "insert_instances" -> "insert_tools"
      [] pc = "insert_tools" -> "start"
      [] pc = "start" -> "return"

\* The order of the statements of add_tool: create_tool, start, the two
\* insertions, then the return.
add_tool_next(pc) ==
    CASE pc = "create" -> "start"
      [] pc = "start" -> "insert_instances"
      [] pc = "insert_instances" -> "insert_tools"
      [] pc = "insert_tools" -> "return"

\* Where a call goes when add_tool ends with result res: out of add_tool, or,
\* inside setup, back to the loop (an exception leaves setup too).
add_tool_end(rec, res) ==
    IF rec.op = "setup" /\ res = "ok"
    THEN [rec EXCEPT !.pc = "loop", !.cfg = NoCfg]
    ELSE [rec EXCEPT !.pc = "done", !.res = res, !.cfg = NoCfg]

add_tool_goto(rec, pc) ==
    IF add_tool_next(pc) = "return"
    THEN add_tool_end(rec, "ok")
    ELSE [rec EXCEPT !.pc = add_tool_next(pc)]

\* add_tool, line 281: create_tool(cfg), entered with the call record rec.
add_tool_create(c, cfg, rec) ==
    LET r == [rec EXCEPT !.name = cfg.name, !.cfg = head(cfg), !.inst = 0,
                         !.present = tool_instances[cfg.name] # 0,
                         !.before = <<tool_instances, tools>>]
    IN  IF create_tool(cfg) = "ValueError"
        THEN /\ call' = [call EXCEPT ![c] = add_tool_end(r, "ValueError")]
             /\ UNCHANGED inst
        ELSE /\ FreeInst # {}
             /\ inst' = [inst EXCEPT ![NextInst] = new_tool(cfg)]
             /\ call' = [call EXCEPT ![c] =
                            add_tool_goto([r EXCEPT !.inst = NextInst], "create")]

AddTool(c) ==
    /\ call[c].op = "idle"
    /\ \E cfg \in Cfgs : add_tool_create(c, cfg, [Idle EXCEPT !.op = "add"])
    /\ UNCHANGED <<tool_instances, tools, client, agent_tools, view>>

\* add_tool whose failed start() is "rolled back" by deleting the name from
\* both tables.
AddStartRollback(c) ==
    /\ call[c].op \in {"add", "setup"} /\ call[c].pc = "start"
    /\ \E cfg \in Cfgs :
       LET i == call[c].inst
           r == start(inst[i], cfg)
           rec == [call[c] EXCEPT !.cfg = NoCfg]
       IN  /\ head(cfg) = call[c].cfg
           /\ inst' = [inst EXCEPT ![i] = discard(r)]
           /\ client' = [client EXCEPT ![i] = r.client]
           /\ call' = [call EXCEPT ![c] =
                  IF r.err # ""
                  THEN add_tool_end([rec EXCEPT !.inst = 0], r.err)
                  ELSE add_tool_goto([rec EXCEPT !.before = <<>>], "start")]
           /\ IF r.err # ""
              THEN /\ tool_instances' = [tool_instances EXCEPT ![call[c].name] = 0]
                   /\ tools' = [tools EXCEPT ![call[c].name] = 0]
              ELSE UNCHANGED <<tool_instances, tools>>
    /\ UNCHANGED <<agent_tools, view>>

\* add_tool, line 282: instance.start(). An exception leaves add_tool.
AddStart(c) ==
    /\ call[c].op \in {"add", "setup"} /\ call[c].pc = "start"
    /\ \E cfg \in Cfgs :
       LET i == call[c].inst
           r == start(inst[i], cfg)
           rec == [call[c] EXCEPT !.cfg = NoCfg]
       IN  /\ head(cfg) = call[c].cfg
           /\ inst' = [inst EXCEPT ![i] = discard(r)]
           /\ client' = [client EXCEPT ![i] = r.client]
           /\ call' = [call EXCEPT ![c] =
                  IF r.err # ""
                  THEN add_tool_end([rec EXCEPT !.inst = 0], r.err)
                  ELSE add_tool_goto([rec EXCEPT !.before = <<>>], "start")]
    /\ UNCHANGED <<tool_instances, tools, agent_tools, view>>

\* add_tool, line 283: tool_instances[name] = instance.
AddInsertInstances(c) ==
    /\ call[c].op \in {"add", "setup"} /\ call[c].pc = "insert_instances"
    /\ tool_instances' = [tool_instances EXCEPT ![call[c].name] = call[c].inst]
    /\ call' = [call EXCEPT ![c] = add_tool_goto(call[c], "insert_instances")]
    /\ UNCHANGED <<tools, inst, client, agent_tools, view>>

\* add_tool that also writes the new invocable into a consumer's table that
\* attach_all_to_agent has filled (a consumer linked to the registry).
AddInsertToolsLinked(c) ==
    /\ call[c].op \in {"add", "setup"} /\ call[c].pc = "insert_tools"
    /\ tools' = [tools EXCEPT ![call[c].name] = call[c].inst]
    /\ agent_tools' = IF Keys(agent_tools) # {}
                      THEN [agent_tools EXCEPT ![call[c].name] = call[c].inst]
                      ELSE agent_tools
    /\ call' = [call EXCEPT ![c] = add_tool_goto(call[c], "insert_tools")]
    /\ UNCHANGED <<tool_instances, inst, client, view>>

\* add_tool, lines 284-285: tools[name] = instance.to_tool(). The invocable
\* is a closure over the instance and is named by the instance.
AddInsertTools(c) ==
    /\ call[c].op \in {"add", "setup"} /\ call[c].pc = "insert_tools"
    /\ tools' = [tools EXCEPT ![call[c].name] = call[c].inst]
    /\ call' = [call EXCEPT ![c] = add_tool_goto(call[c], "insert_tools")]
    /\ UNCHANGED <<tool_instances, inst, client, agent_tools, view>>

\* --------------------------------------------------- ToolFabric.remove_tool
\* remove_tool without the membership test.
remove_tool_check_missing(table, name) == "lookup"

\* remove_tool, line 288: the membership test. An absent name falls off the
\* end of the method, which returns None.
remove_tool_check(table, name) ==
    IF table[name] # 0 THEN "lookup" ELSE "return"

RemoveTool(c) ==
    /\ call[c].op = "idle"
    /\ \E name \in Names :
          LET r == [Idle EXCEPT !.op = "remove", !.name = name,
                                !.present = tool_instances[name] # 0]
          IN  call' = [call EXCEPT ![c] =
                  IF remove_tool_check(tool_instances, name) = "return"
                  THEN [r EXCEPT !.pc = "done", !.res = "returned"]
                  ELSE [r EXCEPT !.pc = "lookup"]]
    /\ UNCHANGED <<tool_instances, tools, inst, client, agent_tools, view>>

\* remove_tool, line 289: tool_instances[name] is read again and its stop()
\* entered (BaseTool.stop, reached through super().stop()).
RemoveLookup(c) ==
    /\ call[c].op = "remove" /\ call[c].pc = "lookup"
    /\ LET i == tool_instances[call[c].name]
       IN  IF i = 0
           THEN /\ call' = [call EXCEPT ![c].pc = "done", ![c].res = "KeyError"]
                /\ UNCHANGED inst
           ELSE \* stops: whether stop() has been entered (0: never, 1: yes).
                /\ inst' = [inst EXCEPT ![i].stops = 1]
                /\ call' = [call EXCEPT ![c].inst = i,
                                        ![c].pc = IF client[i].exists
                                                  THEN "disconnect"
                                                  ELSE "terminate"]
    /\ UNCHANGED <<tool_instances, tools, client, agent_tools, view>>

\* BaseTool.stop, line 141: client.disconnect(), its first statement.
RemoveDisconnect(c) ==
    /\ call[c].op = "remove" /\ call[c].pc = "disconnect"
    /\ client' = disconnect_clear(client, call[c].inst)
    /\ call' = [call EXCEPT ![c].pc = "signal"]
    /\ UNCHANGED <<tool_instances, tools, inst, agent_tools, view>>

RemoveDisconnectSignal(c) ==
    /\ call[c].op = "remove" /\ call[c].pc = "signal"
    /\ client' = disconnect_signal(client, call[c].inst)
    /\ call' = [call EXCEPT ![c].pc = "join"]
    /\ UNCHANGED <<tool_instances, tools, inst, agent_tools, view>>

\* The join of disconnect; BaseTool.stop's own loop over _health_threads joins
\* nothing, the list is never filled.
RemoveDisconnectJoin(c) ==
    /\ call[c].op = "remove" /\ call[c].pc = "join"
    /\ disconnect_joined(client, call[c].inst)
    /\ call' = [call EXCEPT ![c].pc = "terminate"]
    /\ UNCHANGED <<tool_instances, tools, inst, client, agent_tools, view>>

\* MCPBasedTool.stop, lines 223-225, on instance ti (InternalFunctionTool.stop
\* has no process): process.terminate() is called on a process that was
\* launched; ok is whether the operating system lets the signal through. The
\* call is not inside a try: its error leaves stop().
stop_terminate(ti, ok) ==
    IF ti.process = "running" /\ ~ok
    THEN [err |-> "TerminateError", inst |-> ti]
    ELSE [err |-> "",
          inst |-> [ti EXCEPT !.stopped = TRUE,
                              !.process = IF @ = "running"
                                          THEN "terminated" ELSE @]]

\* The end of stop() inside remove_tool (line 289): stop() returns, or its
\* error leaves remove_tool before the two del statements.
RemoveTerminate(c) ==
    /\ call[c].op = "remove" /\ call[c].pc = "terminate"
    /\ \E ok \in IF inst[call[c].inst].process = "running"
                 THEN BOOLEAN ELSE {TRUE} :
          LET r == stop_terminate(inst[call[c].inst], ok)
          IN  /\ inst' = [inst EXCEPT ![call[c].inst] = r.inst]
              /\ call' = [call EXCEPT ![c] =
                             IF r.err # ""
                             THEN [@ EXCEPT !.pc = "done", !.res = r.err]
                             ELSE [@ EXCEPT !.pc = "del_instances"]]
    /\ UNCHANGED <<tool_instances, tools, client, agent_tools, view>>

\* remove_tool, line 290: del tool_instances[name].
RemoveDelInstances(c) ==
    /\ call[c].op = "remove" /\ call[c].pc = "del_instances"
    /\ IF tool_instances[call[c].name] = 0
       THEN /\ call' = [call EXCEPT ![c].pc = "done", ![c].res = "KeyError"]
            /\ UNCHANGED tool_instances
       ELSE /\ tool_instances' = [tool_instances EXCEPT ![call[c].name] = 0]
            /\ call' = [call EXCEPT ![c].pc = "del_tools"]
    /\ UNCHANGED <<tools, inst, client, agent_tools, view>>

\* remove_tool without its line 291: the name stays in tools.
RemoveDelToolsKept(c) ==
    /\ call[c].op = "remove" /\ call[c].pc = "del_tools"
    /\ call' = [call EXCEPT ![c].pc = "done", ![c].res = "returned"]
    /\ UNCHANGED <<tool_instances, tools, inst, client, agent_tools, view>>

\* remove_tool, lines 291-292: del tools[name].
RemoveDelTools(c) ==
    /\ call[c].op = "remove" /\ call[c].pc = "del_tools"
    /\ IF tools[call[c].name] = 0
       THEN /\ call' = [call EXCEPT ![c].pc = "done", ![c].res = "KeyError"]
            /\ UNCHANGED tools
       ELSE /\ tools' = [tools EXCEPT ![call[c].name] = 0]
            /\ call' = [call EXCEPT ![c].pc = "done", ![c].res = "returned"]
    /\ UNCHANGED <<tool_instances, inst, client, agent_tools, view>>

\* ------------------------------------------ ToolFabric.attach_all_to_agent
\* attach_tool that keeps an entry the consumer already has (setdefault).
attach_tool_setdefault(table, name, func) ==
    IF table[name] # 0 THEN table ELSE [table EXCEPT ![name] = func]

\* agent.attach_tool(name, func): the consumer stores func under name in its
\* own table.
attach_tool(table, name, func) == [table EXCEPT ![name] = func]

\* attach_all_to_agent, line 295: self.tools.items() and its iterator, which
\* remembers the size of the dict.
AttachAll(c) ==
    /\ call[c].op = "idle"
    /\ call' = [call EXCEPT ![c] =
                   [Idle EXCEPT !.op = "attach", !.pc = "iterate",
                                !.size = Cardinality(Keys(tools))]]
    /\ UNCHANGED <<tool_instances, tools, inst, client, agent_tools, view>>

\* One turn of the for loop, lines 295-296. The iterator raises RuntimeError
\* when the dict has changed size since the iterator was made (which takes a
\* second thread); otherwise it yields a key of the live dict not yielded yet,
\* with its current value, or ends the loop.
AttachNext(c) ==
    /\ call[c].op = "attach" /\ call[c].pc = "iterate"
    /\ IF Cardinality(Keys(tools)) # call[c].size
       THEN /\ call' = [call EXCEPT ![c].pc = "done", ![c].res = "RuntimeError"]
            /\ UNCHANGED agent_tools
       ELSE IF Keys(tools) \ call[c].visited = {}
       THEN /\ call' = [call EXCEPT ![c].pc = "done", ![c].res = "returned"]
            /\ UNCHANGED agent_tools
       ELSE \E n \in Keys(tools) \ call[c].visited :
               /\ agent_tools' = attach_tool(agent_tools, n, tools[n])
               /\ call' = [call EXCEPT ![c].visited = @ \cup {n}]
    /\ UNCHANGED <<tool_instances, tools, inst, client, view>>

\* --------------------------------------------------------- ToolFabric.setup
\* The tool lists of the configuration setup() runs over.
Configs == {<<>>} \cup {<<head(cfg)>> : cfg \in Cfgs}

\* What a holder of setup()'s return value reads through it: setup returns
\* self.tools, the registry's own dict.
ViewContents == tools

\* setup, line 276: the loop over config["tools"] starts.
Setup(c) ==
    /\ call[c].op = "idle"
    /\ \E cfgs \in Configs :
          call' = [call EXCEPT ![c] =
                      [Idle EXCEPT !.op = "setup", !.pc = "loop", !.todo = cfgs]]
    /\ UNCHANGED <<tool_instances, tools, inst, client, agent_tools, view>>

\* setup, lines 276-278: the next add_tool(cfg), or return self.tools.
SetupLoop(c) ==
    /\ call[c].op = "setup" /\ call[c].pc = "loop"
    /\ IF call[c].todo = <<>>
       THEN /\ view' = TRUE
            /\ call' = [call EXCEPT ![c].pc = "done", ![c].res = "returned"]
            /\ UNCHANGED inst
       ELSE /\ add_tool_create(c, Head(call[c].todo),
                               [call[c] EXCEPT !.todo = Tail(@)])
            /\ UNCHANGED view
    /\ UNCHANGED <<tool_instances, tools, client, agent_tools>>

\* ------------------------------------------------------- tool invocation
\* The callables a function tool's module and function can resolve to: one
\* that returns its argument, one that raises.
Functions == {"echo", "raise"}

\* The arguments an invocable is called with (the action of an MCP tool).
Args == {"x", "y"}

\* The callable f applied to x.
function(f, x) ==
    IF f = "raise" THEN [err |-> "CallableError", value |-> <<>>]
    ELSE [err |-> "", value |-> <<x>>]

\* MCPBasedTool.to_tool, line 231: the string tool() returns for an action.
ack(x) == <<x, "executed">>

\* The closure of InternalFunctionTool.to_tool whose callable's exception is
\* caught and turned into an empty result.
tool_call_swallow(ti, f, x) ==
    IF ti.class = "InternalFunctionTool"
    THEN IF ti.phase # "ready"
         THEN [err |-> "AttributeError", value |-> <<>>]
         ELSE [err |-> "", value |-> function(f, x).value]
    ELSE [err |-> "", value |-> ack(x)]

\* The closure to_tool() returns, up to its loop over mcp_clients, on
\* instance ti. InternalFunctionTool, line 193: self.function(*args) -- the
\* attribute exists only once start() has set it (line 183), and an exception
\* of the callable leaves the closure. MCPBasedTool, line 228: nothing is
\* read of the instance; the value is what line 231 will return.
tool_call(ti, f, x) ==
    IF ti.class = "InternalFunctionTool"
    THEN IF ti.phase # "ready"
         THEN [err |-> "AttributeError", value |-> <<>>]
         ELSE function(f, x)
    ELSE [err |-> "", value |-> ack(x)]

\* The loop over self.mcp_clients of either closure: what send did with the
\* payload ("none": the instance has no handle).
tool_send(cl, i) == IF cl[i].exists THEN send(cl, i) ELSE "none"

\* The invocables a consumer gets from the registry's mapping.
Invocables == {tools[n] : n \in Keys(tools)}

\* The call of the invocable of instance i, up to its loop over mcp_clients.
invoke_begin(c, i) ==
    /\ call[c].op = "idle"
    /\ \E x \in Args :
       \E f \in IF inst[i].class = "InternalFunctionTool"
                THEN Functions ELSE {""} :
          LET r == tool_call(inst[i], f, x)
              rec == [Idle EXCEPT !.op = "invoke", !.inst = i, !.fn = f,
                                  !.arg = x]
          IN  call' = [call EXCEPT ![c] =
                         IF r.err # ""
                         THEN [rec EXCEPT !.pc = "done", !.res = r.err]
                         ELSE [rec EXCEPT !.pc = "send", !.value = r.value]]
    /\ UNCHANGED <<tool_instances, tools, inst, client, agent_tools, view>>

\* A consumer calls an invocable of the mapping.
Invoke(c) == \E i \in Invocables : invoke_begin(c, i)

\* The loop over mcp_clients (lines 194-195, 229-230) and the return
\* (lines 196, 231). An exception of send would leave the closure.
InvokeSend(c) ==
    /\ call[c].op = "invoke" /\ call[c].pc = "send"
    /\ LET o == tool_send(client, call[c].inst)
       IN  call' = [call EXCEPT ![c] =
                      IF o \in {"none", "sent", "warning"}
                      THEN [@ EXCEPT !.pc = "done", !.res = "returned",
                                     !.sent = o]
                      ELSE [@ EXCEPT !.pc = "done", !.res = o, !.sent = o,
                                     !.value = <<>>]]
    /\ UNCHANGED <<tool_instances, tools, inst, client, agent_tools, view>>

\* ------------------------------------------------------ direct use of tools
\* tool = create_tool(cfg) in a program of its own.
ToolCreate(c) ==
    /\ call[c].op = "idle"
    /\ FreeInst # {}
    /\ \E cfg \in Cfgs :
          /\ create_tool(cfg) # "ValueError"
          /\ inst' = [inst EXCEPT ![NextInst] = new_tool(cfg)]
    /\ UNCHANGED <<tool_instances, tools, client, agent_tools, view, call>>

\* tool.start() on an object that has not been started.
ToolStart(c) ==
    /\ call[c].op = "idle"
    /\ \E i \in Insts :
       \E cfg \in Cfgs :
          LET r == start(inst[i], cfg)
          IN  /\ inst[i].phase = "created"
              /\ create_tool(cfg) = inst[i].class
              /\ inst' = [inst EXCEPT ![i] = discard(r)]
              /\ client' = [client EXCEPT ![i] = r.client]
    /\ UNCHANGED <<tool_instances, tools, agent_tools, view, call>>

\* tool.to_tool()(...) on any object the program has constructed.
ToolInvoke(c) == \E i \in Insts : inst[i].phase # "none" /\ invoke_begin(c, i)

InitRegistry ==
    /\ tool_instances = [n \in Names |-> 0]
    /\ tools = [n \in Names |-> 0]
    /\ agent_tools = [n \in Names |-> 0]
    /\ view = FALSE
    /\ call = [c \in Callers |-> Idle]

\* A program that has constructed one MCPClient and uses it from one thread.
InitClient ==
    /\ InitRegistry
    /\ inst = [i \in Insts |-> NoInst]
    /\ client = [h \in Insts |-> IF h = Handle THEN NewClient ELSE NoClient]

NextClient ==
    \/ ClientConnect(Main)
    \/ ClientStartHealthCheck(Main)
    \/ ClientDisconnect(Main)
    \/ ClientDisconnectSignal(Main)
    \/ ClientDisconnectJoin(Main)
    \/ Return(Main)
    \/ HealthStep

ClientSpec == InitClient /\ [][NextClient]_vars

\* The same program with its health threads scheduled: a thread that can take
\* a turn is not held back for ever (each turn ends in a time.sleep of finite
\* length, after which the interpreter runs the thread again).
ClientFairSpec == ClientSpec /\ WF_vars(HealthStep)

\* ToolFabric.__init__: an empty registry, no instance constructed.
Init ==
    /\ InitRegistry
    /\ inst = [i \in Insts |-> NoInst]
    /\ client = [h \in Insts |-> NoClient]

\* The steps of add_tool and remove_tool.
RegistryStep(c) ==
    \/ AddTool(c)
    \/ AddStart(c)
    \/ AddInsertInstances(c)
    \/ AddInsertTools(c)
    \/ RemoveTool(c)
    \/ RemoveLookup(c)
    \/ RemoveDisconnect(c)
    \/ RemoveDisconnectSignal(c)
    \/ RemoveDisconnectJoin(c)
    \/ RemoveTerminate(c)
    \/ RemoveDelInstances(c)
    \/ RemoveDelTools(c)
    \/ Return(c)

\* The steps of setup and attach_all_to_agent.
ConsumerStep(c) ==
    \/ AttachAll(c)
    \/ AttachNext(c)
    \/ Setup(c)
    \/ SetupLoop(c)

\* add_tool and remove_tool called by the threads of Callers at once.
Next == (\E c \in Callers : RegistryStep(c)) \/ HealthStep

Spec == Init /\ [][Next]_vars

\* The whole registry used by one thread: calls do not overlap.
NextSeq == RegistryStep(Main) \/ ConsumerStep(Main) \/ HealthStep

SeqSpec == Init /\ [][NextSeq]_vars

\* One thread adds and removes tools while the consumer's thread calls the
\* invocables of the mapping.
NextHot ==
    \/ RegistryStep(Main)
    \/ Invoke(Agent)
    \/ InvokeSend(Agent)
    \/ Return(Agent)
    \/ HealthStep

HotSpec == Init /\ [][NextHot]_vars

\* A program that constructs tools with create_tool and uses them itself,
\* from one thread, without a registry.
NextTool ==
    \/ ToolCreate(Main)
    \/ ToolStart(Main)
    \/ ToolInvoke(Main)
    \/ InvokeSend(Main)
    \/ Return(Main)
    \/ HealthStep

ToolSpec == Init /\ [][NextTool]_vars

\* ================================================================= claims
Errors == {"ValueError", "ProcessLaunchFailure", "ConfigurationError", "KeyError"}

IsAdd(c) == call[c].op \in {"add", "setup"} /\ call[c].pc # "loop"

Quiet == \A c \in Callers : call[c].op = "idle" \/ call[c].pc \in {"done", "loop"}

\* C1: whatever add_tool and remove_tool calls have run, every name of the
\* registry's tables maps to an instance whose start() has returned, and when no
\* call is half-way both tables name one and the same instance under it.
C1_MappingHoldsStartedInstances ==
    /\ \A n \in Names :
          /\ tool_instances[n] # 0 => inst[tool_instances[n]].phase = "ready"
          /\ tools[n] # 0 => inst[tools[n]].phase = "ready"
    /\ Quiet => tools = tool_instances

\* C1 witness: one name is registered while the instance of another add_tool
\* has been constructed and not yet started.
C1_Witness ==
    /\ \E n \in Names : tools[n] # 0 /\ tool_instances[n] # 0
    /\ \E i \in Insts : inst[i].phase = "created"

\* C2 (as claimed): an add_tool whose name is already in the mapping, with a
\* descriptor create_tool accepts, ends with DuplicateName and constructs no
\* new instance.
C2_DuplicateNameRejected ==
    \A c \in Callers :
        (call[c].op = "add" /\ call[c].present /\ call[c].res # "ValueError")
            => /\ call[c].pc = "done"
               /\ call[c].res = "DuplicateName"
               /\ call[c].inst = 0

\* C3: an add_tool that ends with an error hands that error to its caller and
\* leaves both tables exactly as they were when it was called.
C3_FailedAddLeavesMapping ==
    \A c \in Callers :
        (IsAdd(c) /\ call[c].pc = "done" /\ call[c].res \notin {"ok", "returned"})
            => /\ call[c].res \in Errors
               /\ <<tool_instances, tools>> = call[c].before

\* C3 witness: add_tool has just failed on a launch, a resolution or a client
\* entry for a name that is absent, while another tool is registered.
C3_Witness ==
    \E c \in Callers :
        /\ call[c].op = "add" /\ call[c].pc = "done"
        /\ call[c].res \in Errors \ {"ValueError"}
        /\ tools[call[c].name] = 0 /\ tool_instances[call[c].name] = 0
        /\ Keys(tools) # {}

\* C4 (as claimed): remove_tool of an absent name ends with NotFound, enters
\* no stop() and changes no table.
C4_AbsentRemoveNotFound ==
    [][\A c \in Callers :
          (call[c].op = "idle" /\ call'[c].op = "remove"
             /\ tool_instances[call'[c].name] = 0)
              => /\ call'[c].pc = "done" /\ call'[c].res = "NotFound"
                 /\ UNCHANGED <<tool_instances, tools, inst, client>>]_vars

\* C4 (amended): remove_tool of an absent name returns normally, without any
\* error; it enters no stop() and changes no table, instance or handle.
C4_AbsentRemoveReturns ==
    [][\A c \in Callers :
          (call[c].op = "idle" /\ call'[c].op = "remove"
             /\ tool_instances[call'[c].name] = 0)
              => /\ call'[c].pc = "done" /\ call'[c].res = "returned"
                 /\ UNCHANGED <<tool_instances, tools, inst, client>>]_vars

\* C4 witness: a remove_tool of a name that an earlier remove_tool has taken
\* out has returned.
C4_Witness ==
    \E c \in Callers :
        /\ call[c].op = "remove" /\ call[c].pc = "done" /\ ~call[c].present
        /\ call[c].res = "returned"
        /\ \E i \in Insts : inst[i].stopped

\* C5 (as claimed): no table exposes a name whose instance has had stop()
\* entered: the name is taken out before stop() begins.
C5_RemovedBeforeStop ==
    \A n \in Names :
        /\ tool_instances[n] # 0 => inst[tool_instances[n]].stops = 0
        /\ tools[n] # 0 => inst[tools[n]].stops = 0

\* A call that has made its first access to the tables and not yet its last
\* write.
InMutation(c) ==
    \/ IsAdd(c) /\ call[c].pc = "insert_tools"
    \/ /\ call[c].op = "remove"
       /\ call[c].pc \in {"lookup", "disconnect", "signal", "join", "terminate",
                          "del_instances", "del_tools"}

\* C6 (as claimed): at most one add_tool / remove_tool call at a time is
\* between its first access and its last write of the tables.
C6_MutationsExclusive == Cardinality({c \in Callers : InMutation(c)}) <= 1

\* C7 (as claimed): once setup() has handed out its view, what the holder
\* reads through it never changes.
C7_ViewKeepsContents == [][view => ViewContents' = ViewContents]_vars

\* C8: no step of add_tool, remove_tool or setup changes the consumer's table;
\* only attach_all_to_agent writes it.
C8_NoLastingLinkage ==
    [][(\E c \in Callers :
           \/ call[c].op \in {"add", "remove", "setup"}
           \/ call'[c].op \in {"add", "remove", "setup"})
        => agent_tools' = agent_tools]_vars

\* C8 witness: after an attach_all_to_agent, registry calls have run and the
\* consumer's table still holds what the attach wrote, not what the registry
\* holds now.
C8_Witness ==
    /\ Quiet
    /\ Keys(agent_tools) # {}
    /\ \E n \in Names : tools[n] # 0 /\ agent_tools[n] # tools[n]
    /\ \E n \in Names : tools[n] = 0 /\ agent_tools[n] # 0

\* C9 (as claimed): when attach_all_to_agent returns, the consumer's table has
\* exactly the names of the registry's mapping.
C9_AttachMirrorsRegistry ==
    \A c \in Callers :
        (call[c].op = "attach" /\ call[c].pc = "done" /\ call[c].res = "returned")
            => Keys(agent_tools) = Keys(tools)

\* C9 (amended): when attach_all_to_agent returns, with no registry call
\* running beside it, the consumer's table holds every name of the registry's
\* mapping with the registry's current invocable; it may hold more.
C9_AttachCoversRegistry ==
    \A c \in Callers :
        (call[c].op = "attach" /\ call[c].pc = "done" /\ call[c].res = "returned")
            => \A n \in Keys(tools) : agent_tools[n] = tools[n]

\* C9 witness: a fresh attach has returned, a registered tool is in the table
\* with the registry's invocable, and a tool removed before the attach is
\* still there.
C9_Witness ==
    \E c \in Callers :
        /\ call[c].op = "attach" /\ call[c].pc = "done"
        /\ \E n \in Names : tools[n] = 0 /\ agent_tools[n] # 0
        /\ \E n \in Names : tools[n] # 0 /\ agent_tools[n] = tools[n]

\* C10 (as claimed): when disconnect() returns, no health thread of the handle
\* is alive.
C10_DisconnectJoinsAllTasks ==
    \A c \in Callers :
        (call[c].op = "disconnect" /\ call[c].pc = "done")
            => LiveTasks(client, call[c].inst) = 0

\* C11 (as claimed): when disconnect() returns the handle is not connected,
\* whatever turns its health threads took while disconnect() ran.
C11_DisconnectedOnReturn ==
    \A c \in Callers :
        (call[c].op = "disconnect" /\ call[c].pc = "done")
            => ~client[call[c].inst].connected

\* C12 (as claimed): a handle never has more than one health thread alive,
\* however often start_health_check is called on it.
C12_OneMonitoringTask == \A h \in Insts : LiveTasks(client, h) <= 1

\* A handle that is not connected while one of its health threads is alive
\* and the cancellation flag is not set.
Monitored(h) ==
    /\ client[h].exists
    /\ LiveTasks(client, h) > 0
    /\ ~client[h].stop_health

\* C13: a turn of a health thread that finds the flag unset and the handle not
\* connected leaves it connected, and with the threads scheduled a monitored
\* handle that is not connected becomes connected, unless the monitoring is
\* cancelled first.
C13_MonitorReconnects ==
    /\ [][(HealthStep /\ Monitored(Handle) /\ ~client[Handle].connected)
            => client'[Handle].connected]_vars
    /\ (Monitored(Handle) /\ ~client[Handle].connected)
          ~> (client[Handle].connected \/ client[Handle].stop_health)

\* C13 witness: disconnect() has cleared connected and has not set the flag
\* yet, and a health thread has connected the handle again.
C13_Witness ==
    \E c \in Callers :
        /\ call[c].op = "disconnect" /\ call[c].pc = "signal"
        /\ Monitored(call[c].inst)
        /\ client[call[c].inst].connected

\* Instance i still has something running: a launched process that was not
\* terminated, or a health thread that has not exited.
StillRunning(i) == inst[i].process = "running" \/ LiveTasks(client, i) > 0

\* C14 (as claimed): when no call is half-way and every name has been removed
\* from the mapping, nothing that any add_tool started is still running.
C14_NothingRunsAfterRemoval ==
    (Quiet /\ Keys(tool_instances) = {} /\ Keys(tools) = {})
        => \A i \in Insts : ~StillRunning(i)

\* The name the registry call of caller c works on in the step taken.
StepName(c) ==
    IF call'[c].op \in {"add", "remove"} THEN call'[c].name ELSE call[c].name

\* The step taken is a step of an add_tool or remove_tool of caller c.
IsRegistryStep(c) ==
    /\ call'[c] # call[c]
    /\ call[c].op \in {"add", "remove"} \/ call'[c].op \in {"add", "remove"}

\* C15: a step of add_tool or remove_tool on one name leaves every other
\* name's entries, the instance and the handle (connection state and health
\* threads) registered under it, and a call of its invocable that is under
\* way, as they are; a call under way never waits for anything and ends with
\* the invocable's own outcome.
C15_HotChangeLeavesOthers ==
    /\ [][IsRegistryStep(Main) =>
            \A n \in Names \ {StepName(Main)} :
                /\ tool_instances'[n] = tool_instances[n]
                /\ tools'[n] = tools[n]
                /\ \A i \in {tool_instances[n], tools[n]} \ {0} :
                      /\ inst'[i] = inst[i]
                      /\ client'[i] = client[i]
                      /\ call[Agent].inst = i => call'[Agent] = call[Agent]]_vars
    /\ [](call[Agent].op = "invoke" =>
            /\ call[Agent].pc = "send" => ENABLED InvokeSend(Agent)
            /\ call[Agent].pc = "done" =>
                  \/ call[Agent].res = "returned"
                  \/ call[Agent].res = function(call[Agent].fn, call[Agent].arg).err)

\* C15 witness: a call of one tool's invocable is under way, its handle
\* connected and monitored, while the other name is half-way through its
\* remove_tool.
C15_Witness ==
    /\ call[Agent].op = "invoke" /\ call[Agent].pc = "send"
    /\ call[Main].op = "remove" /\ call[Main].pc \in {"signal", "join", "terminate"}
    /\ call[Main].inst # call[Agent].inst
    /\ \E n \in Names \ {call[Main].name} : tools[n] = call[Agent].inst
    /\ Monitored(call[Agent].inst) /\ client[call[Agent].inst].connected

\* C16: a finished call of a started function tool's invocable has returned
\* exactly what the callable returns for the argument, or has raised exactly
\* the callable's error, without a result.
C16_FunctionResultExact ==
    \A c \in Callers :
        (/\ call[c].op = "invoke" /\ call[c].pc = "done"
         /\ inst[call[c].inst].class = "InternalFunctionTool"
         /\ inst[call[c].inst].phase = "ready")
            => LET r == function(call[c].fn, call[c].arg)
               IN  IF r.err # ""
                   THEN call[c].res = r.err /\ call[c].value = <<>>
                   ELSE call[c].res = "returned" /\ call[c].value = r.value

\* C16 witness: the invocable of a started function tool with a connected
\* handle has returned the callable's result.
C16_Witness ==
    \E c \in Callers :
        /\ call[c].op = "invoke" /\ call[c].pc = "done"
        /\ inst[call[c].inst].class = "InternalFunctionTool"
        /\ call[c].fn = "echo" /\ call[c].value = <<call[c].arg>>
        /\ call[c].sent = "sent"

\* The step that ends a call of an MCP tool's invocable: what its loop over
\* the handles did and what it returns, where dropped is what send does on a
\* handle that is not connected.
ProcessInvokeEnd(dropped) ==
    (/\ call[Agent].op = "invoke" /\ call[Agent].pc = "send"
     /\ call'[Agent].pc = "done"
     /\ inst[call[Agent].inst].class = "MCPBasedTool")
        => /\ call'[Agent].res = "returned"
           /\ call'[Agent].value = ack(call[Agent].arg)
           /\ call'[Agent].sent =
                  IF ~client[call[Agent].inst].exists THEN "none"
                  ELSE IF client[call[Agent].inst].connected THEN "sent"
                  ELSE dropped
           /\ UNCHANGED <<tool_instances, tools, inst, client>>

\* No call of an MCP tool's invocable has ended with an error.
ProcessInvokeNeverRaises ==
    (call[Agent].op = "invoke" /\ inst[call[Agent].inst].class = "MCPBasedTool")
        => call[Agent].res \in {"", "returned"}

C18_NotReadyBeforeStart ==
    \A c \in Callers :
        (call[c].op = "invoke" /\ inst[call[c].inst].phase = "created")
            => /\ call[c].pc = "done"
               /\ call[c].res \in {"NotReady", "AttributeError"}
               /\ call[c].value = <<>>
               /\ call[c].sent = ""

\* C19 (as claimed): a remove_tool that has entered stop() ends without an
\* error and with the name absent from both tables, whatever terminate() does.
C19_StopAlwaysCompletes ==
    \A c \in Callers :
        (call[c].op = "remove" /\ call[c].pc = "done" /\ call[c].inst # 0)
            => /\ call[c].res = "returned"
               /\ tool_instances[call[c].name] = 0
               /\ tools[call[c].name] = 0

\* C20 (as claimed): the instance of a failed add_tool has nothing running:
\* no launched process and no health thread.
C20_FailedAddLeavesNothingRunning ==
    \A i \in Insts : inst[i].phase = "failed" => ~StillRunning(i)

\* C21: whenever no add_tool or remove_tool is half-way, whether the last one
\* returned or raised, tools and tool_instances have the same names, and
\* under each name tools holds the invocable of the instance tool_instances
\* holds.
C21_TablesInStep ==
    Quiet => /\ Keys(tools) = Keys(tool_instances)
             /\ \A n \in Keys(tool_instances) : tools[n] = tool_instances[n]

\* C21 witness: a remove_tool has ended with the error of terminate() and
\* the name is still in both tables, with the same instance.
C21_Witness ==
    \E c \in Callers :
        /\ call[c].op = "remove" /\ call[c].pc = "done"
        /\ call[c].res = "TerminateError"
        /\ tool_instances[call[c].name] = call[c].inst
        /\ tools[call[c].name] = call[c].inst
        /\ Keys(tools) = Keys(tool_instances)

====
